---- MODULE Spec2Model ----
(***************************************************************************)
(* ElasticAnalyzer (src/main.py): the connectivity probe, the index        *)
(* resolver, the metrics and trace analyzers, the ES|QL template generator *)
(* and run_analysis, the pipeline that drives them.                        *)
(*                                                                         *)
(* Python strings the code inspects (index names, URLs, query texts) are   *)
(* sequences of one-character strings, so that `in`, split and f-string    *)
(* substitution are computed as the code computes them.  Texts the code    *)
(* only prints (titles, descriptions, messages) are TLA+ strings.          *)
(*                                                                         *)
(* The console (rich) is a sink: printing does not raise.  requests follows *)
(* no redirect, so response.url is the URL requested.                      *)
(***************************************************************************)
EXTENDS Naturals, Sequences, FiniteSets

(***************************************************************************)
(* Python string operations                                                *)
(***************************************************************************)

\* The positions at which sub occurs in s.
Occurrences(s, sub) ==
  {i \in 1..(Len(s) + 1) : i + Len(sub) - 1 <= Len(s) /\ SubSeq(s, i, i + Len(sub) - 1) = sub}

\* Python's `sub in s` on strings.
StrIn(sub, s) == Occurrences(s, sub) # {}

(***************************************************************************)
(* Texts of the program                                                    *)
(***************************************************************************)

\* os.environ['ELASTIC_URL']
base_url ==
  <<"h","t","t","p","s",":","/","/","o","t","e","l","-","d","e","m","o","-","a","5","6","3","0","c",".","e","s",".","u","s","-","e","a","s","t","-","1",".","a","w","s",".","e","l","a","s","t","i","c",".","c","l","o","u","d">>

\* The four index patterns of get_apm_indices, in the order of the list.
apm_patterns ==
  << <<"a","p","m","-","*">>,
     <<"t","r","a","c","e","s","-","*">>,
     <<"l","o","g","s","-","*">>,
     <<"m","e","t","r","i","c","s","-","*">> >>

\* The marker of `'metrics-' in index`.
MetricsMarker == <<"m","e","t","r","i","c","s","-">>

\* The path suffix of every search request: f"{base_url}/{index}/_search".
SearchSuffix == <<"/","_","s","e","a","r","c","h">>

\* Every esql f-string opens with a line break, the indentation and "FROM ".
EsqlHead ==
  <<"\n"," "," "," "," "," "," "," "," "," "," "," "," "," "," "," "," ","F","R","O","M"," ">>

\* src/main.py:291-298, the text after {index}
SystemMetricsAnalysisTail ==
  <<"\n"," "," "," "," "," "," "," "," "," "," "," "," "," "," "," "," ","|"," ","W","H","E","R","E"," ","m","e","t","r","i","c","s","e","t",".","n","a","m","e"," ","=","="," ","\"","s","y","s","t","e","m","\"">>
  \o <<"\n"," "," "," "," "," "," "," "," "," "," "," "," "," "," "," "," ","|"," ","S","T","A","T","S"," ">>
  \o <<"\n"," "," "," "," "," "," "," "," "," "," "," "," "," "," "," "," "," "," "," "," ","a","v","g","_","c","p","u"," ","="," ","A","V","G","(","s","y","s","t","e","m",".","c","p","u",".","c","o","r","e","s",")",",">>
  \o <<"\n"," "," "," "," "," "," "," "," "," "," "," "," "," "," "," "," "," "," "," "," ","a","v","g","_","m","e","m","o","r","y"," ","="," ","A","V","G","(","s","y","s","t","e","m",".","m","e","m","o","r","y",".","a","c","t","u","a","l",".","u","s","e","d",".","p","c","t",")">>
  \o <<"\n"," "," "," "," "," "," "," "," "," "," "," "," "," "," "," "," "," "," "," "," ","B","Y"," ","h","o","s","t",".","n","a","m","e">>
  \o <<"\n"," "," "," "," "," "," "," "," "," "," "," "," "," "," "," "," ","|"," ","S","O","R","T"," ","a","v","g","_","c","p","u"," ","D","E","S","C">>
  \o <<"\n"," "," "," "," "," "," "," "," "," "," "," "," "," "," "," "," ">>

\* src/main.py:305-313, the text after {index}
SystemLoadAnalysisTail ==
  <<"\n"," "," "," "," "," "," "," "," "," "," "," "," "," "," "," "," ","|"," ","W","H","E","R","E"," ","m","e","t","r","i","c","s","e","t",".","n","a","m","e"," ","=","="," ","\"","s","y","s","t","e","m","\"">>
  \o <<"\n"," "," "," "," "," "," "," "," "," "," "," "," "," "," "," "," ","|"," ","S","T","A","T","S"," ">>
  \o <<"\n"," "," "," "," "," "," "," "," "," "," "," "," "," "," "," "," "," "," "," "," ","a","v","g","_","l","o","a","d","_","1","m"," ","="," ","A","V","G","(","s","y","s","t","e","m",".","l","o","a","d",".","1",")",",">>
  \o <<"\n"," "," "," "," "," "," "," "," "," "," "," "," "," "," "," "," "," "," "," "," ","a","v","g","_","l","o","a","d","_","5","m"," ","="," ","A","V","G","(","s","y","s","t","e","m",".","l","o","a","d",".","5",")",",">>
  \o <<"\n"," "," "," "," "," "," "," "," "," "," "," "," "," "," "," "," "," "," "," "," ","a","v","g","_","l","o","a","d","_","1","5","m"," ","="," ","A","V","G","(","s","y","s","t","e","m",".","l","o","a","d",".","1","5",")">>
  \o <<"\n"," "," "," "," "," "," "," "," "," "," "," "," "," "," "," "," "," "," "," "," ","B","Y"," ","h","o","s","t",".","n","a","m","e">>
  \o <<"\n"," "," "," "," "," "," "," "," "," "," "," "," "," "," "," "," ","|"," ","S","O","R","T"," ","a","v","g","_","l","o","a","d","_","1","m"," ","D","E","S","C">>
  \o <<"\n"," "," "," "," "," "," "," "," "," "," "," "," "," "," "," "," ">>

\* src/main.py:320-327, the text after {index}
MemoryUsageAnalysisTail ==
  <<"\n"," "," "," "," "," "," "," "," "," "," "," "," "," "," "," "," ","|"," ","W","H","E","R","E"," ","m","e","t","r","i","c","s","e","t",".","n","a","m","e"," ","=","="," ","\"","s","y","s","t","e","m","\"">>
  \o <<"\n"," "," "," "," "," "," "," "," "," "," "," "," "," "," "," "," ","|"," ","S","T","A","T","S"," ">>
  \o <<"\n"," "," "," "," "," "," "," "," "," "," "," "," "," "," "," "," "," "," "," "," ","a","v","g","_","m","e","m","o","r","y","_","u","s","e","d"," ","="," ","A","V","G","(","s","y","s","t","e","m",".","m","e","m","o","r","y",".","a","c","t","u","a","l",".","u","s","e","d",".","p","c","t",")",",">>
  \o <<"\n"," "," "," "," "," "," "," "," "," "," "," "," "," "," "," "," "," "," "," "," ","a","v","g","_","m","e","m","o","r","y","_","f","r","e","e"," ","="," ","A","V","G","(","s","y","s","t","e","m",".","m","e","m","o","r","y",".","a","c","t","u","a","l",".","f","r","e","e",".","p","c","t",")">>
  \o <<"\n"," "," "," "," "," "," "," "," "," "," "," "," "," "," "," "," "," "," "," "," ","B","Y"," ","h","o","s","t",".","n","a","m","e">>
  \o <<"\n"," "," "," "," "," "," "," "," "," "," "," "," "," "," "," "," ","|"," ","S","O","R","T"," ","a","v","g","_","m","e","m","o","r","y","_","u","s","e","d"," ","D","E","S","C">>
  \o <<"\n"," "," "," "," "," "," "," "," "," "," "," "," "," "," "," "," ">>

\* src/main.py:334-341, the text after {index}
FilesystemAnalysisTail ==
  <<"\n"," "," "," "," "," "," "," "," "," "," "," "," "," "," "," "," ","|"," ","W","H","E","R","E"," ","m","e","t","r","i","c","s","e","t",".","n","a","m","e"," ","=","="," ","\"","s","y","s","t","e","m","\"">>
  \o <<"\n"," "," "," "," "," "," "," "," "," "," "," "," "," "," "," "," ","|"," ","S","T","A","T","S"," ">>
  \o <<"\n"," "," "," "," "," "," "," "," "," "," "," "," "," "," "," "," "," "," "," "," ","a","v","g","_","d","i","s","k","_","u","s","e","d"," ","="," ","A","V","G","(","s","y","s","t","e","m",".","f","i","l","e","s","y","s","t","e","m",".","u","s","e","d",".","p","c","t",")",",">>
  \o <<"\n"," "," "," "," "," "," "," "," "," "," "," "," "," "," "," "," "," "," "," "," ","a","v","g","_","d","i","s","k","_","f","r","e","e"," ","="," ","A","V","G","(","s","y","s","t","e","m",".","f","i","l","e","s","y","s","t","e","m",".","f","r","e","e",".","p","c","t",")">>
  \o <<"\n"," "," "," "," "," "," "," "," "," "," "," "," "," "," "," "," "," "," "," "," ","B","Y"," ","h","o","s","t",".","n","a","m","e",","," ","s","y","s","t","e","m",".","f","i","l","e","s","y","s","t","e","m",".","m","o","u","n","t","_","p","o","i","n","t">>
  \o <<"\n"," "," "," "," "," "," "," "," "," "," "," "," "," "," "," "," ","|"," ","S","O","R","T"," ","a","v","g","_","d","i","s","k","_","u","s","e","d"," ","D","E","S","C">>
  \o <<"\n"," "," "," "," "," "," "," "," "," "," "," "," "," "," "," "," ">>

\* src/main.py:350-358, the text after {index}
TransactionDurationAnalysisTail ==
  <<"\n"," "," "," "," "," "," "," "," "," "," "," "," "," "," "," "," ","|"," ","W","H","E","R","E"," ","t","r","a","n","s","a","c","t","i","o","n",".","t","y","p","e"," ","I","S"," ","N","O","T"," ","N","U","L","L">>
  \o <<"\n"," "," "," "," "," "," "," "," "," "," "," "," "," "," "," "," ","|"," ","S","T","A","T","S"," ">>
  \o <<"\n"," "," "," "," "," "," "," "," "," "," "," "," "," "," "," "," "," "," "," "," ","a","v","g","_","d","u","r","a","t","i","o","n"," ","="," ","A","V","G","(","t","r","a","n","s","a","c","t","i","o","n",".","d","u","r","a","t","i","o","n",".","u","s",")",",">>
  \o <<"\n"," "," "," "," "," "," "," "," "," "," "," "," "," "," "," "," "," "," "," "," ","p","9","5","_","d","u","r","a","t","i","o","n"," ","="," ","P","E","R","C","E","N","T","I","L","E","(","t","r","a","n","s","a","c","t","i","o","n",".","d","u","r","a","t","i","o","n",".","u","s",","," ","9","5",")",",">>
  \o <<"\n"," "," "," "," "," "," "," "," "," "," "," "," "," "," "," "," "," "," "," "," ","c","o","u","n","t"," ","="," ","C","O","U","N","T","(",")">>
  \o <<"\n"," "," "," "," "," "," "," "," "," "," "," "," "," "," "," "," "," "," "," "," ","B","Y"," ","t","r","a","n","s","a","c","t","i","o","n",".","t","y","p","e">>
  \o <<"\n"," "," "," "," "," "," "," "," "," "," "," "," "," "," "," "," ","|"," ","S","O","R","T"," ","a","v","g","_","d","u","r","a","t","i","o","n"," ","D","E","S","C">>
  \o <<"\n"," "," "," "," "," "," "," "," "," "," "," "," "," "," "," "," ">>

\* src/main.py:365-372, the text after {index}
ErrorAnalysisTail ==
  <<"\n"," "," "," "," "," "," "," "," "," "," "," "," "," "," "," "," ","|"," ","W","H","E","R","E"," ","t","r","a","n","s","a","c","t","i","o","n",".","r","e","s","u","l","t"," ","=","="," ","\"","e","r","r","o","r","\"">>
  \o <<"\n"," "," "," "," "," "," "," "," "," "," "," "," "," "," "," "," ","|"," ","S","T","A","T","S"," ">>
  \o <<"\n"," "," "," "," "," "," "," "," "," "," "," "," "," "," "," "," "," "," "," "," ","e","r","r","o","r","_","c","o","u","n","t"," ","="," ","C","O","U","N","T","(",")",",">>
  \o <<"\n"," "," "," "," "," "," "," "," "," "," "," "," "," "," "," "," "," "," "," "," ","a","v","g","_","d","u","r","a","t","i","o","n"," ","="," ","A","V","G","(","t","r","a","n","s","a","c","t","i","o","n",".","d","u","r","a","t","i","o","n",".","u","s",")">>
  \o <<"\n"," "," "," "," "," "," "," "," "," "," "," "," "," "," "," "," "," "," "," "," ","B","Y"," ","t","r","a","n","s","a","c","t","i","o","n",".","t","y","p","e">>
  \o <<"\n"," "," "," "," "," "," "," "," "," "," "," "," "," "," "," "," ","|"," ","S","O","R","T"," ","e","r","r","o","r","_","c","o","u","n","t"," ","D","E","S","C">>
  \o <<"\n"," "," "," "," "," "," "," "," "," "," "," "," "," "," "," "," ">>

\* src/main.py:379-387, the text after {index}
ServicePerformanceTail ==
  <<"\n"," "," "," "," "," "," "," "," "," "," "," "," "," "," "," "," ","|"," ","W","H","E","R","E"," ","s","e","r","v","i","c","e",".","n","a","m","e"," ","I","S"," ","N","O","T"," ","N","U","L","L">>
  \o <<"\n"," "," "," "," "," "," "," "," "," "," "," "," "," "," "," "," ","|"," ","S","T","A","T","S"," ">>
  \o <<"\n"," "," "," "," "," "," "," "," "," "," "," "," "," "," "," "," "," "," "," "," ","a","v","g","_","d","u","r","a","t","i","o","n"," ","="," ","A","V","G","(","t","r","a","n","s","a","c","t","i","o","n",".","d","u","r","a","t","i","o","n",".","u","s",")",",">>
  \o <<"\n"," "," "," "," "," "," "," "," "," "," "," "," "," "," "," "," "," "," "," "," ","p","9","5","_","d","u","r","a","t","i","o","n"," ","="," ","P","E","R","C","E","N","T","I","L","E","(","t","r","a","n","s","a","c","t","i","o","n",".","d","u","r","a","t","i","o","n",".","u","s",","," ","9","5",")",",">>
  \o <<"\n"," "," "," "," "," "," "," "," "," "," "," "," "," "," "," "," "," "," "," "," ","c","o","u","n","t"," ","="," ","C","O","U","N","T","(",")">>
  \o <<"\n"," "," "," "," "," "," "," "," "," "," "," "," "," "," "," "," "," "," "," "," ","B","Y"," ","s","e","r","v","i","c","e",".","n","a","m","e">>
  \o <<"\n"," "," "," "," "," "," "," "," "," "," "," "," "," "," "," "," ","|"," ","S","O","R","T"," ","a","v","g","_","d","u","r","a","t","i","o","n"," ","D","E","S","C">>
  \o <<"\n"," "," "," "," "," "," "," "," "," "," "," "," "," "," "," "," ">>

\* src/main.py:394-401, the text after {index}
SpanAnalysisTail ==
  <<"\n"," "," "," "," "," "," "," "," "," "," "," "," "," "," "," "," ","|"," ","W","H","E","R","E"," ","s","p","a","n",".","t","y","p","e"," ","I","S"," ","N","O","T"," ","N","U","L","L">>
  \o <<"\n"," "," "," "," "," "," "," "," "," "," "," "," "," "," "," "," ","|"," ","S","T","A","T","S"," ">>
  \o <<"\n"," "," "," "," "," "," "," "," "," "," "," "," "," "," "," "," "," "," "," "," ","a","v","g","_","d","u","r","a","t","i","o","n"," ","="," ","A","V","G","(","s","p","a","n",".","d","u","r","a","t","i","o","n",".","u","s",")",",">>
  \o <<"\n"," "," "," "," "," "," "," "," "," "," "," "," "," "," "," "," "," "," "," "," ","c","o","u","n","t"," ","="," ","C","O","U","N","T","(",")">>
  \o <<"\n"," "," "," "," "," "," "," "," "," "," "," "," "," "," "," "," "," "," "," "," ","B","Y"," ","s","p","a","n",".","t","y","p","e",","," ","s","e","r","v","i","c","e",".","n","a","m","e">>
  \o <<"\n"," "," "," "," "," "," "," "," "," "," "," "," "," "," "," "," ","|"," ","S","O","R","T"," ","a","v","g","_","d","u","r","a","t","i","o","n"," ","D","E","S","C">>
  \o <<"\n"," "," "," "," "," "," "," "," "," "," "," "," "," "," "," "," ">>

\* src/main.py:408-416, the text after {index}
ResponseTimeAnalysisTail ==
  <<"\n"," "," "," "," "," "," "," "," "," "," "," "," "," "," "," "," ","|"," ","W","H","E","R","E"," ","t","r","a","n","s","a","c","t","i","o","n",".","t","y","p","e"," ","=","="," ","\"","r","e","q","u","e","s","t","\"">>
  \o <<"\n"," "," "," "," "," "," "," "," "," "," "," "," "," "," "," "," ","|"," ","S","T","A","T","S"," ">>
  \o <<"\n"," "," "," "," "," "," "," "," "," "," "," "," "," "," "," "," "," "," "," "," ","a","v","g","_","d","u","r","a","t","i","o","n"," ","="," ","A","V","G","(","t","r","a","n","s","a","c","t","i","o","n",".","d","u","r","a","t","i","o","n",".","u","s",")",",">>
  \o <<"\n"," "," "," "," "," "," "," "," "," "," "," "," "," "," "," "," "," "," "," "," ","p","9","5","_","d","u","r","a","t","i","o","n"," ","="," ","P","E","R","C","E","N","T","I","L","E","(","t","r","a","n","s","a","c","t","i","o","n",".","d","u","r","a","t","i","o","n",".","u","s",","," ","9","5",")",",">>
  \o <<"\n"," "," "," "," "," "," "," "," "," "," "," "," "," "," "," "," "," "," "," "," ","c","o","u","n","t"," ","="," ","C","O","U","N","T","(",")">>
  \o <<"\n"," "," "," "," "," "," "," "," "," "," "," "," "," "," "," "," "," "," "," "," ","B","Y"," ","t","r","a","n","s","a","c","t","i","o","n",".","n","a","m","e">>
  \o <<"\n"," "," "," "," "," "," "," "," "," "," "," "," "," "," "," "," ","|"," ","S","O","R","T"," ","a","v","g","_","d","u","r","a","t","i","o","n"," ","D","E","S","C">>
  \o <<"\n"," "," "," "," "," "," "," "," "," "," "," "," "," "," "," "," ">>

\* One entry of the examples list.
Example(title, description, esql) ==
  [title |-> title, description |-> description, esql |-> esql]

\* Faulty variant: the f prefix is missing and {index} stays in the text.
EsqlUnsubstituted(index, tail) == EsqlHead \o <<"{","i","n","d","e","x","}">> \o tail
\* The f-string of one example: the text up to {index}, the index name, the rest.
Esql(index, tail) == EsqlHead \o index \o tail

\* The metrics branch of generate_esql_examples: four appends.
MetricsExamples(index) ==
  << Example("System Metrics Analysis", "Analyze system metrics over time",
             Esql(index, SystemMetricsAnalysisTail)),
     Example("System Load Analysis", "Analyze system load metrics",
             Esql(index, SystemLoadAnalysisTail)),
     Example("Memory Usage Analysis", "Analyze memory usage metrics",
             Esql(index, MemoryUsageAnalysisTail)),
     Example("Filesystem Analysis", "Analyze filesystem metrics",
             Esql(index, FilesystemAnalysisTail)) >>

\* The else branch of generate_esql_examples: five appends.
TraceExamples(index) ==
  << Example("Transaction Duration Analysis", "Analyze transaction durations by type",
             Esql(index, TransactionDurationAnalysisTail)),
     Example("Error Analysis", "Analyze errors by transaction type",
             Esql(index, ErrorAnalysisTail)),
     Example("Service Performance", "Analyze performance by service",
             Esql(index, ServicePerformanceTail)),
     Example("Span Analysis", "Analyze spans by type and service",
             Esql(index, SpanAnalysisTail)),
     Example("Response Time Analysis", "Analyze response times by endpoint",
             Esql(index, ResponseTimeAnalysisTail)) >>

\* Faulty variant: index.startswith('metrics-') in place of `'metrics-' in index`.
generate_esql_examples_startswith(index, sample_doc) ==
  IF 1 \in Occurrences(index, MetricsMarker) THEN MetricsExamples(index) ELSE TraceExamples(index)
\* generate_esql_examples(self, index, sample_doc=None): sample_doc is not read.
generate_esql_examples(index, sample_doc) ==
  IF StrIn(MetricsMarker, index) THEN MetricsExamples(index) ELSE TraceExamples(index)

(***************************************************************************)
(* Bounds of the model                                                     *)
(***************************************************************************)

\* The longest bucket list an aggregation response carries.
MaxBuckets == 2
\* Direct calls of generate_esql_examples in one behaviour.
MaxGenCalls == 2
\* Direct calls of analyze_trace_data in one behaviour.
MaxTraceCalls == 2

(***************************************************************************)
(* The backend's answers                                                   *)
(***************************************************************************)

\* response.status_code of a successful search.
HTTP_OK == 200

\* What one request can come to: the call raised, or it returned a response
\* with a status and a body.  json is what response.json() yields:
\*   "invalid"  the body is not JSON, response.json() raises
\*   "missing"  a JSON object without the top-level key the code looks for
\*   "bad"      the key is there but the value has not the shape the code
\*              subscripts (KeyError / TypeError)
\*   "ok"       the expected shape; buckets / hits carry the data
Answer(kind, status, json, items) ==
  [kind |-> kind, status |-> status, json |-> json, items |-> items]

Raised == Answer("raise", 0, "none", <<>>)
\* A response with a status other than 200.
NonSuccess == Answer("response", 404, "none", <<>>)
Success == Answer("response", HTTP_OK, "none", <<>>)

\* Values of metricset.name / transaction.type in the backend.
BucketKeys == {"system", "cpu", "memory"}

\* Sequences of at most n distinct keys, as a terms aggregation returns them.
BucketLists(n) ==
  UNION { { s \in [1..k -> BucketKeys] : \A i, j \in 1..k : i # j => s[i] # s[j] } : k \in 0..n }

Bucket(key) == [key |-> key, doc_count |-> 1]

Buckets(keys) == [i \in 1..Len(keys) |-> Bucket(keys[i])]

\* Answers to requests.post of test_connection and get_apm_indices: only the
\* status is read.
StatusAnswers == {Raised, NonSuccess, Success}

\* Answers to the metricset_names aggregation of analyze_metrics_data.
AggAnswers ==
  {Raised, NonSuccess}
  \cup {Answer("response", HTTP_OK, j, <<>>) : j \in {"invalid", "missing", "bad"}}
  \cup {Answer("response", HTTP_OK, "ok", Buckets(k)) : k \in BucketLists(MaxBuckets)}

\* Answers to the per-metricset sample query: hits.hits is empty or holds one
\* document.
SampleAnswers ==
  {Raised, NonSuccess}
  \cup {Answer("response", HTTP_OK, j, <<>>) : j \in {"invalid", "bad"}}
  \cup {Answer("response", HTTP_OK, "ok", h) : h \in {<<>>, <<"doc">>}}

\* Outcomes of self.es.search in analyze_trace_data: the client raises on a
\* transport or HTTP error, otherwise returns the decoded body.
TraceAnswers ==
  {Raised}
  \cup {Answer("response", HTTP_OK, j, <<>>) : j \in {"missing", "bad"}}
  \cup {Answer("response", HTTP_OK, "ok", Buckets(k)) : k \in BucketLists(MaxBuckets)}

(***************************************************************************)
(* State                                                                   *)
(***************************************************************************)

VARIABLES
  pc,               \* where run_analysis stands
  probe,            \* the answer test_connection got
  pattern_i,        \* get_apm_indices: the pattern the for loop is at
  pattern_answers,  \* get_apm_indices: the answers so far, one per pattern tried
  found_indices,    \* get_apm_indices: found_indices
  indices,          \* run_analysis: indices
  index_i,          \* run_analysis: the index the for loop is at
  agg_answer,       \* analyze_metrics_data: the aggregation's answer
  bucket_i,         \* analyze_metrics_data: the bucket the second for loop is at
  sample_answers,   \* analyze_metrics_data: the sample answers so far
  calls,            \* every request sent and every method run_analysis called
  console,          \* what was printed, one tag per message
  gen_log,          \* direct calls of generate_esql_examples
  trace_log         \* direct calls of analyze_trace_data

vars == << pc, probe, pattern_i, pattern_answers, found_indices, indices, index_i,
           agg_answer, bucket_i, sample_answers, calls, console, gen_log, trace_log >>

pipeline_vars == << pc, probe, pattern_i, pattern_answers, found_indices, indices,
                    index_i, agg_answer, bucket_i, sample_answers, calls, console >>

NoAnswer == Answer("none", 0, "none", <<>>)

\* The analyzer is constructed and nothing has been called yet.
Init ==
  /\ pc = "start"
  /\ probe = NoAnswer
  /\ pattern_i = 1
  /\ pattern_answers = <<>>
  /\ found_indices = {}
  /\ indices = <<>>
  /\ index_i = 1
  /\ agg_answer = NoAnswer
  /\ bucket_i = 1
  /\ sample_answers = <<>>
  /\ calls = <<>>
  /\ console = <<>>
  /\ gen_log = <<>>
  /\ trace_log = <<>>

(***************************************************************************)
(* Helpers of the pipeline                                                 *)
(***************************************************************************)

\* One entry of calls: a request sent (probe, resolve, metrics_agg,
\* metrics_sample), a return of analyze_metrics_data (metrics_return, key is
\* the value returned), a call of generate_esql_examples (generate) or the
\* printing of its examples (emit, titles in the order printed).
Call(op, index, key, titles) ==
  [op |-> op, index |-> index, key |-> key, titles |-> titles]

Titles(examples) == [i \in 1..Len(examples) |-> examples[i].title]

\* f"{self.base_url}/{index}/_search"; requests reports it back as response.url.
SearchUrl(index) == base_url \o <<"/">> \o index \o SearchSuffix

\* Python's s.split(sep) for a one-character sep.
RECURSIVE Split(_, _)
Split(s, sep) ==
  IF \A i \in 1..Len(s) : s[i] # sep
  THEN << s >>
  ELSE LET i == CHOOSE k \in 1..Len(s) : s[k] = sep /\ \A j \in 1..(k - 1) : s[j] # sep
       IN  << SubSeq(s, 1, i - 1) >> \o Split(SubSeq(s, i + 1, Len(s)), sep)

\* response.url.split('/')[-2]
ResolvedName(url) ==
  LET parts == Split(url, "/") IN parts[Len(parts) - 1]

\* list(found_indices): the iteration order of a Python set of strings is any.
Orders(S) ==
  { s \in [1..Cardinality(S) -> S] : \A i, j \in 1..Cardinality(S) : i # j => s[i] # s[j] }

\* The index pattern the probe searches.
ProbePattern == apm_patterns[3]

(***************************************************************************)
(* test_connection                                                         *)
(***************************************************************************)

\* Faulty variant: the status of the response is not looked at.
test_connection_any_response(answer) == answer.kind = "response"
\* The value test_connection returns: False from the except branch and from
\* `status_code != 200`, True otherwise.
test_connection(answer) ==
  answer.kind = "response" /\ answer.status = HTTP_OK

\* What test_connection prints.
test_connection_prints(answer) ==
  IF answer.kind = "raise" THEN << "connect_error", "verify_credentials" >>
  ELSE IF answer.status # HTTP_OK THEN << "status", "response_content" >>
  ELSE << "status", "connected" >>

\* run_analysis up to `if not self.test_connection(): return`.
TestConnection ==
  /\ pc = "start"
  /\ \E answer \in StatusAnswers :
       /\ probe' = answer
       /\ calls' = Append(calls, Call("probe", ProbePattern, "", <<>>))
       /\ console' = console \o test_connection_prints(answer)
       /\ pc' = IF test_connection(answer) THEN "resolve" ELSE "done"
  /\ UNCHANGED << pattern_i, pattern_answers, found_indices, indices, index_i,
                  agg_answer, bucket_i, sample_answers, gen_log, trace_log >>

(***************************************************************************)
(* get_apm_indices and the check of its result                             *)
(***************************************************************************)

\* Faulty variant: the emptiness check is missing.
no_indices_never(list) == FALSE
\* `not indices`
no_indices(list) == Len(list) = 0

\* run_analysis from `indices = self.get_apm_indices()` to the head of the for
\* loop, given the list returned, the calls and the output so far.
ResolverReturns(list, log, out) ==
  /\ indices' = list
  /\ calls' = log
  /\ IF no_indices(list)
     THEN /\ console' = Append(out, "no_indices")
          /\ pc' = "done"
     ELSE /\ console' = Append(out, "found_count")
          /\ pc' = IF Len(list) > 0 THEN "loop" ELSE "done"

\* The except branch of get_apm_indices: the error is printed and [] returned.
get_apm_indices_except(log, out) ==
  ResolverReturns(<<>>, log, Append(out, "resolver_error"))

\* One iteration of `for pattern in apm_patterns`: the request is sent; a raise
\* leaves through the except branch, a 200 adds the name taken from the URL;
\* after the last pattern the list is returned.
TrialRequest ==
  /\ pc = "resolve"
  /\ \E answer \in StatusAnswers :
       LET pattern == apm_patterns[pattern_i]
           log == Append(calls, Call("resolve", pattern, "", <<>>))
           found == IF answer.status = HTTP_OK
                    THEN found_indices \cup {ResolvedName(SearchUrl(pattern))}
                    ELSE found_indices
       IN  /\ pattern_answers' = Append(pattern_answers, answer)
           /\ IF answer.kind = "raise"
              THEN /\ get_apm_indices_except(log, console)
                   /\ UNCHANGED << found_indices, pattern_i >>
              ELSE /\ found_indices' = found
                   /\ IF pattern_i < Len(apm_patterns)
                      THEN /\ pattern_i' = pattern_i + 1
                           /\ calls' = log
                           /\ UNCHANGED << pc, indices, console >>
                      ELSE /\ UNCHANGED pattern_i
                           /\ \E list \in Orders(found) : ResolverReturns(list, log, console)
  /\ UNCHANGED << probe, index_i, agg_answer, bucket_i, sample_answers, gen_log, trace_log >>

(***************************************************************************)
(* The for loop of run_analysis                                            *)
(***************************************************************************)

\* The except branch of run_analysis: the error is printed and the method ends.
run_analysis_except(log, out) ==
  /\ calls' = log
  /\ console' = Append(out, "analysis_error")
  /\ pc' = "done"
  /\ UNCHANGED index_i

\* The rest of one iteration, after the analyzer: the examples are generated and
\* printed, and the loop goes to the next index or ends.
FinishIndex(log, out) ==
  LET index == indices[index_i]
      examples == generate_esql_examples(index, "None")
  IN  /\ calls' = log \o << Call("generate", index, "", <<>>),
                            Call("emit", index, "", Titles(examples)) >>
      /\ console' = out
      /\ index_i' = index_i + 1
      /\ pc' = IF index_i < Len(indices) THEN "loop" ELSE "done"

\* One iteration for an index without the metrics marker: no analyzer is
\* called.
ProcessOtherIndex ==
  /\ pc = "loop"
  /\ ~ StrIn(MetricsMarker, indices[index_i])
  /\ FinishIndex(calls, Append(console, "analyzing_index"))
  /\ UNCHANGED << probe, pattern_i, pattern_answers, found_indices, indices,
                  agg_answer, bucket_i, sample_answers, gen_log, trace_log >>

(***************************************************************************)
(* analyze_metrics_data                                                    *)
(***************************************************************************)

\* analyze_metrics_data returns ret to run_analysis, which drops the value.
MetricsReturns(ret, log, out) ==
  FinishIndex(Append(log, Call("metrics_return", indices[index_i], ret, <<>>)), out)

\* Faulty variant: analyze_metrics_data has no try/except, the error reaches the
\* except branch of run_analysis.
analyze_metrics_data_reraise(log, out) == run_analysis_except(log, out)
\* The except branch of analyze_metrics_data: the error is printed and False
\* returned.
analyze_metrics_data_except(log, out) ==
  MetricsReturns("False", log, Append(out, "metrics_error"))

\* Faulty variant: a non-200 status raises too, as after raise_for_status().
AggRaisesOnStatus(answer) ==
  \/ answer.kind = "raise"
  \/ answer.status # HTTP_OK
  \/ answer.json \in {"invalid", "bad"}
\* The aggregation request raised, or the handling of its response did:
\* response.json() on a body that is not JSON, a subscript on
\* data['aggregations'] or on a bucket that is not there, a bucket key the
\* table cannot render.
AggRaises(answer) ==
  \/ answer.kind = "raise"
  \/ answer.status = HTTP_OK /\ answer.json \in {"invalid", "bad"}

\* The sample request raised, or the handling of its response did:
\* sample_response.json() on a body that is not JSON, or a subscript on
\* sample_data['hits']['hits'][0]['_source'] that is not there.
SampleRaises(answer) ==
  \/ answer.kind = "raise"
  \/ answer.status = HTTP_OK /\ answer.json \in {"invalid", "bad"}

\* The response is skipped by `if response.status_code == 200` or by
\* `if 'aggregations' in data`.
AggSkipped(answer) ==
  answer.status # HTTP_OK \/ answer.json = "missing"

\* One iteration for an index with the metrics marker, up to the first sample
\* request: the aggregation is requested and its buckets are tabled.
MetricsAggregate ==
  /\ pc = "loop"
  /\ StrIn(MetricsMarker, indices[index_i])
  /\ \E answer \in AggAnswers :
       LET log == Append(calls, Call("metrics_agg", indices[index_i], "", <<>>))
           out == Append(console, "analyzing_index")
       IN  /\ agg_answer' = answer
           /\ sample_answers' = <<>>
           /\ bucket_i' = 1
           /\ IF AggRaises(answer) THEN analyze_metrics_data_except(log, out)
              ELSE IF AggSkipped(answer) THEN MetricsReturns("True", log, out)
              ELSE IF answer.items = <<>>
                   THEN MetricsReturns("True", log, Append(out, "no_metric_sets"))
              ELSE /\ pc' = "samples"
                   /\ calls' = log
                   /\ console' = Append(out, "metric_sets_table")
                   /\ UNCHANGED index_i
  /\ UNCHANGED << probe, pattern_i, pattern_answers, found_indices, indices,
                  gen_log, trace_log >>

\* One iteration of the second `for bucket in metricset_buckets`.
MetricsSample ==
  /\ pc = "samples"
  /\ \E answer \in SampleAnswers :
       LET metricset_name == agg_answer.items[bucket_i].key
           log == Append(calls, Call("metrics_sample", indices[index_i], metricset_name, <<>>))
           out == IF answer.status = HTTP_OK /\ answer.json = "ok" /\ answer.items # <<>>
                  THEN Append(console, "sample_fields")
                  ELSE console
       IN  /\ sample_answers' = Append(sample_answers, answer)
           /\ IF SampleRaises(answer)
              THEN /\ analyze_metrics_data_except(log, console)
                   /\ UNCHANGED bucket_i
              ELSE IF bucket_i < Len(agg_answer.items)
              THEN /\ bucket_i' = bucket_i + 1
                   /\ calls' = log
                   /\ console' = out
                   /\ UNCHANGED << pc, index_i >>
              ELSE /\ MetricsReturns("True", log, out)
                   /\ UNCHANGED bucket_i
  /\ UNCHANGED << probe, pattern_i, pattern_answers, found_indices, indices,
                  agg_answer, gen_log, trace_log >>

\* run_analysis, one request at a time.
Next ==
  \/ TestConnection
  \/ TrialRequest
  \/ ProcessOtherIndex
  \/ MetricsAggregate
  \/ MetricsSample

Spec == Init /\ [][Next]_vars

(***************************************************************************)
(* generate_esql_examples called directly                                  *)
(***************************************************************************)

\* Index names a caller may pass: the four the resolver can find, a name that
\* is also a field prefix of the trace texts, and a name with the marker
\* inside.
IndexNames ==
  { apm_patterns[i] : i \in 1..Len(apm_patterns) }
  \cup { <<"t","r","a","n","s","a","c","t","i","o","n">>,
         <<"m","y","-","m","e","t","r","i","c","s","-","1">> }

\* sample_doc: the default None, or a document as inspect_fields returns it.
SampleDocs == {"None", "doc"}

\* One call of generate_esql_examples; the log keeps arguments and result.
GenerateCall ==
  /\ Len(gen_log) < MaxGenCalls
  /\ \E index \in IndexNames, sample_doc \in SampleDocs :
       gen_log' = Append(gen_log, [index |-> index, sample_doc |-> sample_doc,
                                   examples |-> generate_esql_examples(index, sample_doc)])
  /\ UNCHANGED << pipeline_vars, trace_log >>

SpecGen == Init /\ [][GenerateCall]_vars

(***************************************************************************)
(* analyze_trace_data called directly                                      *)
(***************************************************************************)

\* self.es.search raised, or a subscript of
\* response['aggregations']['transaction_types']['buckets'] did.
TraceRaises(answer) ==
  answer.kind = "raise" \/ answer.json \in {"missing", "bad"}

\* The except branch of analyze_trace_data: a warning is printed, [] returned.
analyze_trace_data_except(index) == [ret |-> <<>>, warned |-> TRUE]

\* analyze_trace_data(self, index), given what es.search comes to.
analyze_trace_data(index, answer) ==
  IF TraceRaises(answer)
  THEN analyze_trace_data_except(index)
  ELSE [ret |-> answer.items, warned |-> FALSE]

\* One call of analyze_trace_data; the log keeps the index, the backend's
\* answer, the value returned and whether the warning was printed.
TraceCall ==
  /\ Len(trace_log) < MaxTraceCalls
  /\ \E index \in {apm_patterns[1], apm_patterns[2]}, answer \in TraceAnswers :
       LET r == analyze_trace_data(index, answer)
       IN  trace_log' = Append(trace_log, [index |-> index, answer |-> answer,
                                           ret |-> r.ret, warned |-> r.warned])
  /\ UNCHANGED << pipeline_vars, gen_log >>

SpecTrace == Init /\ [][TraceCall]_vars

(***************************************************************************)
(* Properties                                                              *)
(***************************************************************************)

\* The calls with the given op, in the order made.
CallsOf(op) == SelectSeq(calls, LAMBDA c : c.op = op)

\* The index arguments of the calls with the given op, in the order made.
CallIndexes(op) == LET s == CallsOf(op) IN [i \in 1..Len(s) |-> s[i].index]

\* get_apm_indices has returned to run_analysis.
ResolverReturned == probe = Success /\ pc \in {"loop", "samples", "done"}

\* analyze_metrics_data has returned to run_analysis.
MetricsReturned == CallsOf("metrics_return") # <<>>

Printed(tag) == \E i \in DOMAIN console : console[i] = tag

\* C1: when the probe fails (the request raised, or the status is not 200)
\* run_analysis ends at once: the probe is the only call of the run, so there
\* is no resolver request, no metrics analysis and no template generation.
C1_ProbeFailureStopsRun ==
  (probe.kind = "raise" \/ (probe.kind = "response" /\ probe.status # 200))
    => /\ pc = "done"
       /\ Len(calls) = 1
       /\ calls[1].op = "probe"

\* A run whose probe raised a transport error.
C1_Witness == pc = "done" /\ probe = Raised

\* C2: when get_apm_indices has returned, the list holds every pattern whose
\* trial request returned a 200 response, whatever the other requests came to.
C2_EverySuccessfulPatternReturned ==
  (pattern_answers # <<>> /\ pc # "resolve")
    => \A i \in DOMAIN pattern_answers :
         pattern_answers[i] = Success
           => \E k \in DOMAIN indices : indices[k] = apm_patterns[i]

\* C3: when analyze_metrics_data has returned after an aggregation with
\* buckets, one sample query was sent for every bucket, in bucket order,
\* whatever the earlier sample queries came to.
C3_SampleQueryForEveryBucket ==
  (MetricsReturned /\ agg_answer.json = "ok" /\ agg_answer.items # <<>>)
    => LET s == CallsOf("metrics_sample")
       IN  [i \in 1..Len(s) |-> s[i].key]
             = [i \in 1..Len(agg_answer.items) |-> agg_answer.items[i].key]

\* C4: once the probe has succeeded and the resolver has returned a non-empty
\* list, the indices are processed in list order, each exactly once, each with
\* its examples generated and printed, whatever the metrics analysis came to;
\* the run ends only after the last index, and never in the except branch of
\* run_analysis.
C4_EveryIndexProcessedOnce ==
  (ResolverReturned /\ indices # <<>>)
    => /\ index_i \in 1..(Len(indices) + 1)
       /\ CallIndexes("generate") = SubSeq(indices, 1, index_i - 1)
       /\ CallIndexes("emit") = SubSeq(indices, 1, index_i - 1)
       /\ \A c \in {CallsOf("emit")[i] : i \in 1..Len(CallsOf("emit"))} :
            /\ Len(c.titles) \in {4, 5}
            /\ c.titles = Titles(generate_esql_examples(c.index, "None"))
       /\ pc = "done" => index_i = Len(indices) + 1
       /\ ~ Printed("analysis_error")

\* A finished run over several indices in which the metrics analysis of the
\* first index failed.
C4_Witness ==
  /\ pc = "done"
  /\ Len(indices) >= 3
  /\ StrIn(MetricsMarker, indices[1])
  /\ \E i \in DOMAIN calls : calls[i].op = "metrics_return" /\ calls[i].key = "False"

\* C5: when the resolver returns an empty list, run_analysis prints the
\* "no indices" message and ends normally without any per-index work: no
\* metrics analysis, no template generation, nothing emitted.
C5_NoIndicesEndsRun ==
  (ResolverReturned /\ indices = <<>>)
    => /\ pc = "done"
       /\ Printed("no_indices")
       /\ ~ Printed("analysis_error")
       /\ \A i \in DOMAIN calls : calls[i].op \in {"probe", "resolve"}

\* A run in which one pattern was found before the resolver caught an error.
C5_Witness ==
  /\ pc = "done"
  /\ probe = Success
  /\ indices = <<>>
  /\ \E i, j \in DOMAIN pattern_answers :
       pattern_answers[i] = Success /\ pattern_answers[j] = Raised

\* Another run in which every pattern returned a non-success status.
C5_WitnessAllNonSuccess ==
  /\ pc = "done"
  /\ Len(pattern_answers) = Len(apm_patterns)
  /\ \A i \in DOMAIN pattern_answers : pattern_answers[i] = NonSuccess

\* C6: the value analyze_trace_data returns when the aggregation succeeded
\* with zero buckets differs from the value it returns when the query raised.
C6_EmptyDiffersFromError ==
  \A i, j \in DOMAIN trace_log :
    ( /\ trace_log[i].answer.json = "ok"
      /\ trace_log[i].answer.items = <<>>
      /\ trace_log[j].answer.kind = "raise" )
      => trace_log[i].ret # trace_log[j].ret

\* C7: in a finished run, every resolved index had exactly one analyzer run
\* on it, before its examples were generated: the metrics analyzer when the
\* name holds the metrics marker, the trace analyzer otherwise.
C7_OneAnalyzerPerIndex ==
  (pc = "done" /\ ResolverReturned)
    => \A k \in DOMAIN indices :
         LET index == indices[k]
             at(op) == {i \in DOMAIN calls : calls[i].index = index /\ calls[i].op = op}
             analyzer == IF StrIn(MetricsMarker, index) THEN "metrics_agg" ELSE "trace_agg"
             other == IF StrIn(MetricsMarker, index) THEN "trace_agg" ELSE "metrics_agg"
         IN  /\ Cardinality(at(analyzer)) = 1
             /\ at(other) = {}
             /\ \A i \in at(analyzer), j \in at("generate") : i < j

\* C8: generate_esql_examples returns the four metrics examples, in the fixed
\* order, for every index name that holds "metrics-", and the five trace
\* examples, in the fixed order, for every other name; calls with the same
\* index return the same list whatever sample_doc and the earlier calls were.
C8_FixedCatalogs ==
  /\ \A i \in DOMAIN gen_log :
       Titles(gen_log[i].examples)
         = IF StrIn(<<"m","e","t","r","i","c","s","-">>, gen_log[i].index)
           THEN << "System Metrics Analysis", "System Load Analysis",
                   "Memory Usage Analysis", "Filesystem Analysis" >>
           ELSE << "Transaction Duration Analysis", "Error Analysis",
                   "Service Performance", "Span Analysis", "Response Time Analysis" >>
  /\ \A i, j \in DOMAIN gen_log :
       gen_log[i].index = gen_log[j].index => gen_log[i].examples = gen_log[j].examples

\* Two calls with one index that holds the marker inside, the second with a
\* sample document.
C8_Witness ==
  /\ Len(gen_log) >= 2
  /\ gen_log[1].index = gen_log[2].index
  /\ StrIn(MetricsMarker, gen_log[1].index)
  /\ gen_log[1].index # apm_patterns[4]
  /\ gen_log[1].sample_doc = "None"
  /\ gen_log[2].sample_doc = "doc"

\* The text before and after the substituted name.
EsqlRest(esql, index) ==
  SubSeq(esql, 1, Len(EsqlHead)) \o SubSeq(esql, Len(EsqlHead) + Len(index) + 1, Len(esql))

\* The name stands right after "FROM " in the first clause of the text.
InFromClause(esql, index) ==
  /\ SubSeq(esql, Len(EsqlHead) + 1, Len(EsqlHead) + Len(index)) = index
  /\ SubSeq(esql, Len(EsqlHead) - 4, Len(EsqlHead)) = <<"F","R","O","M"," ">>
  /\ Occurrences(SubSeq(esql, 1, Len(EsqlHead)), <<"F","R","O","M">>) = {Len(EsqlHead) - 4}

\* C9 as stated: in every example of every call the index name occurs exactly
\* once in the query text, in the FROM clause.
C9_NameExactlyOnce ==
  \A i \in DOMAIN gen_log :
    \A k \in DOMAIN gen_log[i].examples :
      LET esql == gen_log[i].examples[k].esql
          index == gen_log[i].index
      IN  /\ InFromClause(esql, index)
          /\ Occurrences(esql, index) = {Len(EsqlHead) + 1}

\* C9 as amended: in every example of every call the index name is
\* substituted at exactly one place, right after FROM, and the rest of the
\* text does not depend on the name; that place is the only occurrence of the
\* name when the name holds the metrics marker or is one of the four patterns
\* of the resolver.
C9_NameSubstitutedOnce ==
  /\ \A i \in DOMAIN gen_log :
       \A k \in DOMAIN gen_log[i].examples :
         LET esql == gen_log[i].examples[k].esql
             index == gen_log[i].index
         IN  /\ InFromClause(esql, index)
             /\ ( \/ StrIn(<<"m","e","t","r","i","c","s","-">>, index)
                  \/ \E n \in DOMAIN apm_patterns : index = apm_patterns[n] )
                  => Occurrences(esql, index) = {Len(EsqlHead) + 1}
  /\ \A i, j \in DOMAIN gen_log :
       Titles(gen_log[i].examples) = Titles(gen_log[j].examples)
         => \A k \in DOMAIN gen_log[i].examples :
              EsqlRest(gen_log[i].examples[k].esql, gen_log[i].index)
                = EsqlRest(gen_log[j].examples[k].esql, gen_log[j].index)

\* Two calls with different names that get the trace examples, one of them a
\* name that the trace texts also use as a field prefix.
C9_Witness ==
  /\ Len(gen_log) >= 2
  /\ gen_log[1].index = apm_patterns[1]
  /\ gen_log[2].index # gen_log[1].index
  /\ ~ StrIn(MetricsMarker, gen_log[2].index)
  /\ Cardinality(Occurrences(gen_log[2].examples[1].esql, gen_log[2].index)) > 1

\* C10: analyze_metrics_data returns False exactly when the request or the
\* handling of a response raised inside it; it returns True, without any
\* sample query, when the aggregation's status is not 200, when the response
\* has no aggregations and when the bucket list is empty.
C10_FalseExactlyOnRaise ==
  MetricsReturned
    => LET returns == CallsOf("metrics_return")
           raises(a) == a.kind = "raise" \/ (a.status = 200 /\ a.json \in {"invalid", "bad"})
           raised == raises(agg_answer)
                       \/ \E i \in DOMAIN sample_answers : raises(sample_answers[i])
           quiet == \/ (agg_answer.kind = "response" /\ agg_answer.status # 200)
                    \/ (agg_answer.status = 200 /\ agg_answer.json = "missing")
                    \/ (agg_answer.status = 200 /\ agg_answer.json = "ok"
                          /\ agg_answer.items = <<>>)
       IN  /\ Len(returns) = 1
           /\ returns[1].key \in {"True", "False"}
           /\ returns[1].key = "False" <=> raised
           /\ quiet => (returns[1].key = "True" /\ CallsOf("metrics_sample") = <<>>)
           /\ ~ Printed("analysis_error")

\* A run in which the aggregation returned a non-success status.
C10_Witness ==
  /\ MetricsReturned
  /\ agg_answer = NonSuccess
  /\ CallsOf("metrics_return")[1].key = "True"

\* Another run, in which the second sample query raised.
C10_WitnessSampleRaised ==
  /\ MetricsReturned
  /\ Len(sample_answers) = 2
  /\ sample_answers[2] = Raised
  /\ CallsOf("metrics_return")[1].key = "False"

====
